---- MODULE Spec2Model ----
(***************************************************************************)
(* Model of .github/scripts/gh_cli_script.py: the GitHub Copilot CLI agent *)
(* runner (main, run_copilot_agent, parse_metrics) and the configuration   *)
(* singleton (get_config, Config.load, _get_git_root).                     *)
(*                                                                         *)
(* Text is modelled as a sequence of one-character strings, so that        *)
(* formatting, lower-casing, line splitting and substring tests are        *)
(* computed, not assumed.                                                  *)
(***************************************************************************)
EXTENDS Integers, Sequences, FiniteSets, TLC

VARIABLES
    pc,           \* position of main: "main", "run_copilot_agent", "wait", "main_handle", "exited"
    copilot_cmd,  \* result of shutil.which("copilot")
    gh_token,     \* whether env.get("GH_TOKEN") was truthy when run_copilot_agent read it
    child,        \* the child process of subprocess.run
    outcome,      \* how run_copilot_agent ended: a returned pair or a raised exception
    stdout,       \* what was written to sys.stdout.buffer
    log,          \* the records emitted through logger
    exit_code,    \* process exit status, meaningful once pc = "exited"
    termination,  \* how the process ended: "normal", "sys.exit" or "traceback"
    run_calls,    \* number of subprocess.run calls made by run_copilot_agent
    which_calls,  \* number of shutil.which lookups
    _config,      \* the module-level singleton
    resolutions   \* one record per get_config call, oldest first

mainVars == << pc, copilot_cmd, gh_token, child, outcome, stdout, log, exit_code,
               termination, run_calls, which_calls >>
configVars == << _config, resolutions >>
vars == << pc, copilot_cmd, gh_token, child, outcome, stdout, log, exit_code,
           termination, run_calls, which_calls, _config, resolutions >>

----------------------------------------------------------------------------
(* Bounds of the model *)

\* Longest captured error stream, in lines.
MaxLines == 2
\* Number of get_config calls explored.
MaxCalls == 3

----------------------------------------------------------------------------
(* Python values *)

PyNone == [type |-> "NoneType"]
PyStr(chars) == [type |-> "str", chars |-> chars]
PyDict(items) == [type |-> "dict", items |-> items]

\* Python truthiness of None, a str and a dict.
Truthy(v) ==
    CASE v.type = "NoneType" -> FALSE
      [] v.type = "str" -> v.chars # << >>
      [] v.type = "dict" -> v.items # {}

----------------------------------------------------------------------------
(* Text *)

\* Python's "part in text" for str.
Contains(text, part) ==
    \E i \in 0..(Len(text) - Len(part)) : SubSeq(text, i + 1, i + Len(part)) = part

UpperCase ==
    << "A", "B", "C", "D", "E", "F", "G", "H", "I", "J", "K", "L", "M",
       "N", "O", "P", "Q", "R", "S", "T", "U", "V", "W", "X", "Y", "Z" >>
LowerCase ==
    << "a", "b", "c", "d", "e", "f", "g", "h", "i", "j", "k", "l", "m",
       "n", "o", "p", "q", "r", "s", "t", "u", "v", "w", "x", "y", "z" >>

LowerChar(c) ==
    IF \E i \in 1..Len(UpperCase) : UpperCase[i] = c
    THEN LowerCase[CHOOSE i \in 1..Len(UpperCase) : UpperCase[i] = c]
    ELSE c

\* str.lower()
lower(text) == [i \in 1..Len(text) |-> LowerChar(text[i])]

\* A byte that is not valid UTF-8, and what decode(errors="replace") makes of it.
InvalidByte == "\\xff"
ReplacementChar == "U+FFFD"

\* bytes.decode("utf-8", errors="replace") over ASCII bytes and InvalidByte.
decode(bytes) ==
    [i \in 1..Len(bytes) |-> IF bytes[i] = InvalidByte THEN ReplacementChar ELSE bytes[i]]

\* str.splitlines() for text whose only line boundary is "\n".
RECURSIVE splitlines(_)
splitlines(text) ==
    IF text = << >> THEN << >>
    ELSE IF \E i \in 1..Len(text) : text[i] = "\n"
    THEN LET i == CHOOSE k \in 1..Len(text) :
                      /\ text[k] = "\n"
                      /\ \A j \in 1..(k - 1) : text[j] # "\n"
         IN << SubSeq(text, 1, i - 1) >> \o splitlines(SubSeq(text, i + 1, Len(text)))
    ELSE << text >>

Digits == << "0", "1", "2", "3", "4", "5", "6", "7", "8", "9" >>

\* "%d" of a natural number.
RECURSIVE NatToStr(_)
NatToStr(n) ==
    IF n < 10 THEN << Digits[n + 1] >>
    ELSE NatToStr(n \div 10) \o << Digits[(n % 10) + 1] >>

\* "%d" of an integer.
IntToStr(n) == IF n < 0 THEN << "-" >> \o NatToStr(0 - n) ELSE NatToStr(n)

\* repr() of a str without quotes or escapes in it.
ReprStr(s) == << "'" >> \o s \o << "'" >>

\* repr() of one byte inside a bytes literal.
ReprByte(b) ==
    CASE b = "\n" -> << "\\", "n" >>
      [] b = InvalidByte -> << "\\", "x", "f", "f" >>
      [] OTHER -> << b >>

RECURSIVE ReprBytesBody(_)
ReprBytesBody(bytes) ==
    IF bytes = << >> THEN << >>
    ELSE ReprByte(Head(bytes)) \o ReprBytesBody(Tail(bytes))

\* repr() of a bytes object, as an f-string renders it: b'...'
ReprBytes(bytes) == << "b", "'" >> \o ReprBytesBody(bytes) \o << "'" >>

\* repr() of a list of str: ['a', 'b']
RECURSIVE ReprListBody(_)
ReprListBody(items) ==
    IF items = << >> THEN << >>
    ELSE IF Len(items) = 1 THEN ReprStr(items[1])
    ELSE ReprStr(items[1]) \o << ",", " " >> \o ReprListBody(Tail(items))

ReprList(items) == << "[" >> \o ReprListBody(items) \o << "]" >>

----------------------------------------------------------------------------
(* String literals of the program *)

KwTokens == << "t", "o", "k", "e", "n", "s" >>
KwCost == << "c", "o", "s", "t" >>
CopilotPath ==
    << "/", "u", "s", "r", "/", "b", "i", "n", "/", "c", "o", "p", "i", "l", "o", "t" >>
ArgAllowAllTools ==
    << "-", "-", "a", "l", "l", "o", "w", "-", "a", "l", "l", "-", "t", "o", "o", "l", "s" >>
ArgAllowAllPaths ==
    << "-", "-", "a", "l", "l", "o", "w", "-", "a", "l", "l", "-", "p", "a", "t", "h", "s" >>
ArgDisableBuiltinMcps ==
    << "-", "-", "d", "i", "s", "a", "b", "l", "e", "-", "b", "u", "i", "l", "t", "i", "n", "-",
       "m", "c", "p", "s" >>
ArgModel ==
    << "-", "-", "m", "o", "d", "e", "l", "=", "c", "l", "a", "u", "d", "e", "-", "h", "a", "i",
       "k", "u", "-", "4", ".", "5" >>
ArgLogLevel ==
    << "-", "-", "l", "o", "g", "-", "l", "e", "v", "e", "l", "=", "d", "e", "b", "u", "g" >>
ArgPrompt ==
    << "-", "-", "p", "r", "o", "m", "p", "t", "=", " ", "W", "h", "a", "t", " ", "i", "s", " ",
       "t", "h", "e", " ", "m", "e", "a", "n", "i", "n", "g", " ", "a", "n", "d", " ", "s", "t",
       "r", "u", "c", "t", "u", "r", "e", " ", "o", "f", " ", "t", "h", "i", "s", " ", "r", "e",
       "p", "o", "s", "i", "t", "o", "r", "y", "?", " ", "A", "f", "t", "e", "r", " ", "y", "o",
       "u", " ", "r", "e", "p", "l", "y", ",", " ", "u", "s", "e", " ", "g", "h", " ", "t", "o",
       " ", "m", "a", "k", "e", " ", "a", " ", "h", "e", "l", "l", "o", " ", "w", "o", "r", "l",
       "d", " ", "o", "n", " ", "t", "h", "e", " ", "l", "a", "s", "t", " ", "P", "R" >>
ArgNoCustomInstructions ==
    << "-", "-", "n", "o", "-", "c", "u", "s", "t", "o", "m", "-", "i", "n", "s", "t", "r", "u",
       "c", "t", "i", "o", "n", "s" >>
MsgNotFound ==
    << "C", "o", "p", "i", "l", "o", "t", " ", "C", "L", "I", " ", "n", "o", "t", " ", "f", "o",
       "u", "n", "d", " ", "i", "n", " ", "P", "A", "T", "H", ".", " ", "P", "l", "e", "a", "s",
       "e", " ", "e", "n", "s", "u", "r", "e", " ", "i", "t", " ", "i", "s", " ", "i", "n", "s",
       "t", "a", "l", "l", "e", "d", " ", "a", "n", "d", " ", "a", "v", "a", "i", "l", "a", "b",
       "l", "e", "." >>
MsgFailedPrefix ==
    << "C", "o", "p", "i", "l", "o", "t", " ", "C", "L", "I", " ", "e", "x", "e", "c", "u", "t",
       "i", "o", "n", " ", "f", "a", "i", "l", "e", "d", ":", " " >>
TplCommand ==
    << "C", "o", "m", "m", "a", "n", "d", " ", "'" >>
TplReturned ==
    << "'", " ", "r", "e", "t", "u", "r", "n", "e", "d", " ", "n", "o", "n", "-", "z", "e", "r",
       "o", " ", "e", "x", "i", "t", " ", "s", "t", "a", "t", "u", "s", " " >>
TplDied ==
    << "'", " ", "d", "i", "e", "d", " ", "w", "i", "t", "h", " " >>
TplUnknownSignal ==
    << "u", "n", "k", "n", "o", "w", "n", " ", "s", "i", "g", "n", "a", "l", " " >>
TplSignalsOpen ==
    << "<", "S", "i", "g", "n", "a", "l", "s", "." >>
SIGKILL ==
    << "S", "I", "G", "K", "I", "L", "L" >>
SIGTERM ==
    << "S", "I", "G", "T", "E", "R", "M" >>

----------------------------------------------------------------------------
(* Inputs: lines the child may write to its error stream *)

LineTokens ==
    << "t", "o", "k", "e", "n", "s", ":", " ", "4", "2" >>
LineCost ==
    << "T", "o", "t", "a", "l", " ", "C", "O", "S", "T", " ", "7" >>
LineBoom ==
    << "b", "o", "o", "m" >>
LineOne ==
    << "1" >>
LineInvalid == << InvalidByte >>

LineSet == { LineTokens, LineCost, LineBoom, LineOne, LineInvalid }

LineSeqs == UNION { [1..n -> LineSet] : n \in 0..MaxLines }

RECURSIVE JoinLines(_)
JoinLines(lines) ==
    IF lines = << >> THEN << >>
    ELSE IF Len(lines) = 1 THEN lines[1]
    ELSE lines[1] \o << "\n" >> \o JoinLines(Tail(lines))

\* The byte strings a child may leave on the captured error stream: up to MaxLines
\* lines, with or without a final newline.
StderrContents ==
    { JoinLines(ls) : ls \in LineSeqs } \cup { JoinLines(ls) \o << "\n" >> : ls \in LineSeqs }

\* Exit statuses of the child: success, failures, and death by SIGKILL.
ReturnCodes == { 0, 1, 2, -9 }

\* What shutil.which("copilot") may return.
WhichResults == { PyNone, PyStr(CopilotPath) }

----------------------------------------------------------------------------
(* Results of a call and log records *)

NoOutcome ==
    [kind |-> "none", metrics |-> PyNone, success |-> FALSE, exc |-> "", msg |-> << >>]
Return(metrics, success) ==
    [kind |-> "return", metrics |-> metrics, success |-> success, exc |-> "", msg |-> << >>]
Raise(exc, msg) ==
    [kind |-> "raise", metrics |-> PyNone, success |-> FALSE, exc |-> exc, msg |-> msg]

Log(level, msg, arg) == [level |-> level, msg |-> msg, arg |-> arg]

NoChild == [state |-> "none", returncode |-> 0, stderr |-> << >>]

----------------------------------------------------------------------------
(* run_copilot_agent *)

\* Faulty variant: the result of the lookup is not tested.
CopilotMissing_Never(cmd) == FALSE

\* if not copilot_cmd
CopilotMissing(cmd) == ~Truthy(cmd)

cmd_args(cmd) ==
    << cmd.chars, ArgAllowAllTools, ArgAllowAllPaths, ArgDisableBuiltinMcps, ArgModel,
       ArgLogLevel, ArgPrompt, ArgNoCustomInstructions >>

\* signal.Signals(n).name for the signals of ReturnCodes; << >> when n names no signal.
SignalName(n) ==
    CASE n = 9 -> SIGKILL
      [] n = 15 -> SIGTERM
      [] OTHER -> << >>

\* str(e) of the subprocess.CalledProcessError e, as "{e}" renders it.
StrCalledProcessError(e) ==
    IF e.returncode < 0
    THEN IF SignalName(0 - e.returncode) # << >>
         THEN TplCommand \o ReprList(e.cmd) \o TplDied \o TplSignalsOpen
              \o SignalName(0 - e.returncode) \o << ":", " " >>
              \o NatToStr(0 - e.returncode) \o << ">", "." >>
         ELSE TplCommand \o ReprList(e.cmd) \o TplDied \o TplUnknownSignal
              \o NatToStr(0 - e.returncode) \o << "." >>
    ELSE TplCommand \o ReprList(e.cmd) \o TplReturned \o IntToStr(e.returncode) \o << "." >>

\* Faulty variant: the message is built from the captured error stream instead of str(e).
AgentErrorMessage_FromStderr(e) == MsgFailedPrefix \o decode(e.stderr)

\* f"Copilot CLI execution failed: {e}"
AgentErrorMessage(e) == MsgFailedPrefix \o StrCalledProcessError(e)

\* "tokens" in line.lower() or "cost" in line.lower()
IsMetricLine(line) == Contains(lower(line), KwTokens) \/ Contains(lower(line), KwCost)

\* Faulty variant: a matching line is stored in the mapping.
parse_metrics_step_Populates(metrics, line) ==
    IF IsMetricLine(line) THEN metrics \cup { line } ELSE metrics

\* The body of the loop over stderr_lines: a matching line is logged, metrics is left alone.
parse_metrics_step(metrics, line) == metrics

RECURSIVE parse_metrics_loop(_, _)
parse_metrics_loop(metrics, lines) ==
    IF lines = << >> THEN metrics
    ELSE parse_metrics_loop(parse_metrics_step(metrics, Head(lines)), Tail(lines))

\* return metrics if metrics else None
parse_metrics(stderr_lines) ==
    LET metrics == parse_metrics_loop({}, stderr_lines)
    IN IF metrics # {} THEN PyDict(metrics) ELSE PyNone

\* The records parse_metrics logs: one "Metric: {line}" per matching line, in order.
RECURSIVE MetricLog(_)
MetricLog(lines) ==
    IF lines = << >> THEN << >>
    ELSE (IF IsMetricLine(Head(lines)) THEN << Log("INFO", "Metric: ", Head(lines)) >> ELSE << >>)
         \o MetricLog(Tail(lines))

\* Faulty variant: the timeout is raised as an AgentError.
OnTimeoutExpired_Raises == Raise("AgentError", << >>)

\* except subprocess.TimeoutExpired: return None, False
OnTimeoutExpired == Return(PyNone, FALSE)

----------------------------------------------------------------------------
(* main *)

\* Faulty variant: an AgentError is logged and main carries on to a normal end.
HandleOutcome_SwallowsAgentError(o) ==
    IF o.kind = "return" \/ o.exc = "AgentError"
    THEN [log |-> << Log("INFO", "=== Script completed ===", << >>) >>,
          exit_code |-> 0, termination |-> "normal"]
    ELSE [log |-> << Log("ERROR", "Unexpected error: ", o.msg) >>,
          exit_code |-> 1, termination |-> "sys.exit"]

\* Faulty variant: a returned success flag False ends the process like an AgentError.
HandleOutcome_FailsOnWarning(o) ==
    IF o.kind = "return" /\ o.success
    THEN [log |-> << Log("INFO", "=== Script completed ===", << >>) >>,
          exit_code |-> 0, termination |-> "normal"]
    ELSE [log |-> << Log("ERROR", "Agent error: ", o.msg) >>,
          exit_code |-> 1, termination |-> "sys.exit"]

\* The try statement of main around run_copilot_agent, and what follows it.
HandleOutcome(o) ==
    IF o.kind = "return"
    THEN [log |->
              (IF o.success
               THEN << Log("INFO", "Copilot CLI execution completed successfully", << >>) >>
                    \o (IF Truthy(o.metrics)
                        THEN << Log("INFO", "Metrics collected: ", << >>) >>
                        ELSE << >>)
               ELSE << Log("WARNING", "Copilot CLI execution completed with warnings", << >>) >>)
              \o << Log("INFO", "=== Script completed ===", << >>) >>,
          exit_code |-> 0, termination |-> "normal"]
    ELSE IF o.exc = "AgentError"
    THEN [log |-> << Log("ERROR", "Agent error: ", o.msg) >>,
          exit_code |-> 1, termination |-> "sys.exit"]
    ELSE [log |-> << Log("ERROR", "Unexpected error: ", o.msg) >>,
          exit_code |-> 1, termination |-> "sys.exit"]

----------------------------------------------------------------------------
(* Actions of the runner *)

\* main up to the try statement: the banner, then output_dir.mkdir(exist_ok=True), which
\* raises outside any handler when the directory cannot be made.
Main_Setup ==
    /\ pc = "main"
    /\ \E mkdir_ok \in BOOLEAN :
          /\ log' = Append(log, Log("INFO", "=== GitHub Copilot CLI Agent Runner ===", << >>))
          /\ IF mkdir_ok
             THEN /\ pc' = "run_copilot_agent"
                  /\ UNCHANGED << exit_code, termination >>
             ELSE /\ pc' = "exited"
                  /\ exit_code' = 1
                  /\ termination' = "traceback"
    /\ UNCHANGED << copilot_cmd, gh_token, child, outcome, stdout, run_calls, which_calls >>
    /\ UNCHANGED configVars

\* run_copilot_agent from its first line to the point where subprocess.run has started the
\* child (or failed to): the lookup, the argument vector, the environment copy, the spawn.
RunCopilotAgent_Start ==
    /\ pc = "run_copilot_agent"
    /\ \E cmd \in WhichResults, token \in BOOLEAN, started \in BOOLEAN :
          /\ which_calls' = which_calls + 1
          /\ copilot_cmd' = cmd
          /\ IF CopilotMissing(cmd)
             THEN /\ outcome' = Raise("AgentError", MsgNotFound)
                  /\ pc' = "main_handle"
                  /\ log' = log \o << Log("INFO", "Running GitHub Copilot CLI", << >>),
                                       Log("INFO", "Executing Copilot CLI in directory: ", << >>) >>
                  /\ UNCHANGED << gh_token, child, run_calls >>
             ELSE /\ gh_token' = token
                  /\ run_calls' = run_calls + 1
                  /\ IF started
                     THEN /\ child' = [state |-> "running", returncode |-> 0, stderr |-> << >>]
                          /\ pc' = "wait"
                          /\ outcome' = outcome
                          /\ log' = log
                                    \o << Log("INFO", "Running GitHub Copilot CLI", << >>),
                                          Log("INFO", "Executing Copilot CLI in directory: ", << >>) >>
                                    \o (IF token THEN << >>
                                        ELSE << Log("WARNING", "GH_TOKEN not found in environment", << >>) >>)
                     ELSE /\ child' = child
                          /\ pc' = "main_handle"
                          /\ outcome' = Raise("OSError", << >>)
                          /\ log' = log
                                    \o << Log("INFO", "Running GitHub Copilot CLI", << >>),
                                          Log("INFO", "Executing Copilot CLI in directory: ", << >>) >>
                                    \o (IF token THEN << >>
                                        ELSE << Log("WARNING", "GH_TOKEN not found in environment", << >>) >>)
                                    \o << Log("ERROR", "Unexpected error running Copilot CLI: ", << >>) >>
    /\ UNCHANGED << stdout, exit_code, termination >>
    /\ UNCHANGED configVars

\* The child exits with status 0 before the timeout: the relay to stdout, parse_metrics,
\* and the return.
Child_ExitsZero ==
    /\ pc = "wait"
    /\ \E err \in StderrContents :
          /\ child' = [state |-> "exited", returncode |-> 0, stderr |-> err]
          /\ stdout' = IF err # << >> THEN Append(stdout, err) ELSE stdout
          /\ LET stderr == IF err # << >> THEN decode(err) ELSE << >>
             IN /\ log' = log \o << Log("INFO", "Copilot CLI run complete", << >>) >>
                             \o MetricLog(splitlines(stderr))
                /\ outcome' = Return(parse_metrics(splitlines(stderr)), TRUE)
    /\ pc' = "main_handle"
    /\ UNCHANGED << copilot_cmd, gh_token, exit_code, termination, run_calls, which_calls >>
    /\ UNCHANGED configVars

\* The child exits with a non-zero status before the timeout: check=True raises
\* CalledProcessError, which is logged and replaced by AgentError.
Child_ExitsNonZero ==
    /\ pc = "wait"
    /\ \E rc \in ReturnCodes \ { 0 }, err \in StderrContents :
          LET e == [cmd |-> cmd_args(copilot_cmd), returncode |-> rc, stderr |-> err]
          IN /\ child' = [state |-> "exited", returncode |-> rc, stderr |-> err]
             /\ log' = Append(log, Log("ERROR", "Copilot CLI execution failed with error ",
                                       ReprBytes(e.stderr)))
             /\ outcome' = Raise("AgentError", AgentErrorMessage(e))
    /\ pc' = "main_handle"
    /\ UNCHANGED << copilot_cmd, gh_token, stdout, exit_code, termination, run_calls, which_calls >>
    /\ UNCHANGED configVars

\* Faulty variant: after the timeout run_copilot_agent starts over.
Child_TimesOut_Retries ==
    /\ pc = "wait"
    /\ \E err \in StderrContents :
          child' = [state |-> "killed", returncode |-> -9, stderr |-> err]
    /\ log' = Append(log, Log("ERROR", "Copilot CLI timed out after 300 seconds", << >>))
    /\ pc' = "run_copilot_agent"
    /\ UNCHANGED << copilot_cmd, gh_token, outcome, stdout, exit_code, termination,
                    run_calls, which_calls >>
    /\ UNCHANGED configVars

\* The child is still running when the timeout expires: subprocess.run kills it and raises
\* TimeoutExpired, which is logged and turned into a return value.
Child_TimesOut ==
    /\ pc = "wait"
    /\ \E err \in StderrContents :
          child' = [state |-> "killed", returncode |-> -9, stderr |-> err]
    /\ log' = Append(log, Log("ERROR", "Copilot CLI timed out after 300 seconds", << >>))
    /\ outcome' = OnTimeoutExpired
    /\ pc' = "main_handle"
    /\ UNCHANGED << copilot_cmd, gh_token, stdout, exit_code, termination, run_calls, which_calls >>
    /\ UNCHANGED configVars

\* main after run_copilot_agent has returned or raised.
Main_Handle ==
    /\ pc = "main_handle"
    /\ log' = log \o HandleOutcome(outcome).log
    /\ exit_code' = HandleOutcome(outcome).exit_code
    /\ termination' = HandleOutcome(outcome).termination
    /\ pc' = "exited"
    /\ UNCHANGED << copilot_cmd, gh_token, child, outcome, stdout, run_calls, which_calls >>
    /\ UNCHANGED configVars

----------------------------------------------------------------------------
(* Configuration: _get_git_root, PathConfig, Config.load, get_config *)

\* How "git rev-parse --show-toplevel" can go: it prints the top level, it exits non-zero
\* (not a repository), or git is not installed and the process cannot be started.
GitOutcomes == { "toplevel", "not_a_repository", "git_not_found" }

\* The dataset schema document under the root, as the file system holds it.
SchemaDocs == { "valid", "no_pattern", "malformed", "missing" }

Returned(value) == [kind |-> "return", value |-> value, exc |-> ""]
Raised(exc) == [kind |-> "raise", value |-> PyNone, exc |-> exc]
NotCalled == [kind |-> "none", value |-> PyNone, exc |-> ""]

PyPath(p) == [type |-> "Path", path |-> p]

\* subprocess.run(["git", ...], check=True) inside try / except CalledProcessError: a
\* non-zero exit is caught and answered with the fallback; a git that cannot be started
\* raises FileNotFoundError, which the except clause does not name.
_get_git_root(git) ==
    CASE git = "toplevel" -> Returned(PyPath("<git toplevel>"))
      [] git = "not_a_repository" -> Returned(PyPath("<script>/../../.."))
      [] git = "git_not_found" -> Raised("FileNotFoundError")

\* cls(root=root): PathConfig declares an annotation and no __init__, so the call reaches
\* object() with a keyword argument and raises TypeError.
PathConfig_from_root(root) == Raised("TypeError")

\* Config.load. Line 143 reads path_config.dataset_schema_path, an attribute PathConfig
\* never defines; lines 144-153 lie behind it.
Config_load(git, schema) ==
    LET root == _get_git_root(git)
    IN IF root.kind = "raise" THEN root
       ELSE LET path_config == PathConfig_from_root(root.value)
            IN IF path_config.kind = "raise" THEN path_config
               ELSE Raised("AttributeError")

\* get_config, called with the version-control context and schema document of the moment.
get_config ==
    /\ Len(resolutions) < MaxCalls
    /\ \E git \in GitOutcomes, schema \in SchemaDocs :
          IF _config = PyNone
          THEN LET loaded == Config_load(git, schema)
               IN /\ _config' = IF loaded.kind = "return" THEN loaded.value ELSE _config
                  /\ resolutions' = Append(resolutions,
                         [git |-> git, schema |-> schema, loaded |-> TRUE,
                          root |-> _get_git_root(git), result |-> loaded,
                          cached |-> loaded.kind = "return"])
          ELSE /\ _config' = _config
               /\ resolutions' = Append(resolutions,
                      [git |-> git, schema |-> schema, loaded |-> FALSE,
                       root |-> NotCalled, result |-> Returned(_config),
                       cached |-> TRUE])
    /\ UNCHANGED mainVars

----------------------------------------------------------------------------
(* Specifications *)

Init ==
    /\ pc = "main"
    /\ copilot_cmd = PyNone
    /\ gh_token = FALSE
    /\ child = NoChild
    /\ outcome = NoOutcome
    /\ stdout = << >>
    /\ log = << >>
    /\ exit_code = 0
    /\ termination = "running"
    /\ run_calls = 0
    /\ which_calls = 0
    /\ _config = PyNone
    /\ resolutions = << >>

\* One run of the script.
Next ==
    \/ Main_Setup
    \/ RunCopilotAgent_Start
    \/ Child_ExitsZero
    \/ Child_ExitsNonZero
    \/ Child_TimesOut
    \/ Main_Handle

Spec == Init /\ [][Next]_vars

\* Consumers calling get_config, up to MaxCalls times in one process.
ConfigNext == get_config

ConfigSpec == Init /\ [][ConfigNext]_vars

----------------------------------------------------------------------------
(* Properties *)

Finished == pc \in { "main_handle", "exited" }

HasLog(level, msg) == \E i \in 1..Len(log) : log[i].level = level /\ log[i].msg = msg

\* C1: when the lookup of "copilot" finds nothing, run_copilot_agent raises AgentError and
\* subprocess.run is never called, so no child process exists.
C1_MissingExecutableRaisesBeforeSpawn ==
    (which_calls > 0 /\ ~Truthy(copilot_cmd))
        => /\ run_calls = 0
           /\ child = NoChild
           /\ outcome = Raise("AgentError", MsgNotFound)

C1_Witness ==
    /\ pc = "main_handle"
    /\ which_calls = 1
    /\ copilot_cmd = PyNone
    /\ outcome.exc = "AgentError"

\* C2: when the child outlives the timeout and is killed, run_copilot_agent returns
\* (None, False): the outcome is a return, never a raise, and the timeout is logged as an error.
C2_TimeoutReturnsNoneFalse ==
    child.state = "killed"
        => /\ outcome = Return(PyNone, FALSE)
           /\ HasLog("ERROR", "Copilot CLI timed out after 300 seconds")

C2_Witness ==
    /\ pc = "main_handle"
    /\ child.state = "killed"
    /\ outcome.kind = "return"
    /\ ~outcome.success

NonZeroExit == child.state = "exited" /\ child.returncode # 0

\* C3, as claimed: after a non-zero exit the AgentError message contains the captured
\* error-stream text, for every non-empty captured text.
C3_MessageContainsStderr ==
    (NonZeroExit /\ child.stderr # << >>)
        => /\ outcome.kind = "raise"
           /\ outcome.exc = "AgentError"
           /\ Contains(outcome.msg, decode(child.stderr))

Abs(n) == IF n < 0 THEN 0 - n ELSE n

\* C3, amended: after a non-zero exit run_copilot_agent raises AgentError whose message
\* is the fixed prefix followed by the text of the CalledProcessError, which names the
\* command and the exit status (or signal number); the captured error stream goes to the
\* ERROR log record, not into the message.
C3_MessageNamesCommandAndStatus ==
    NonZeroExit
        => /\ outcome.kind = "raise"
           /\ outcome.exc = "AgentError"
           /\ SubSeq(outcome.msg, 1, Len(MsgFailedPrefix)) = MsgFailedPrefix
           /\ Contains(outcome.msg, ReprStr(copilot_cmd.chars))
           /\ Contains(outcome.msg, ReprStr(ArgNoCustomInstructions))
           /\ Contains(outcome.msg, NatToStr(Abs(child.returncode)))
           /\ \E i \in 1..Len(log) :
                 /\ log[i].level = "ERROR"
                 /\ log[i].arg = ReprBytes(child.stderr)

C3_Witness ==
    /\ pc = "main_handle"
    /\ NonZeroExit
    /\ child.stderr = LineBoom \o << "\n" >>
    /\ outcome.exc = "AgentError"
    /\ ~Contains(outcome.msg, LineBoom)

ZeroExit == child.state = "exited" /\ child.returncode = 0

\* C4: when the child exits 0 before the timeout, run_copilot_agent returns success flag
\* True and metrics None, whatever the captured error stream holds, lines with "tokens"
\* or "cost" in them included.
C4_SuccessReturnsNoneTrue ==
    ZeroExit => outcome = Return(PyNone, TRUE)

C4_Witness ==
    /\ pc = "main_handle"
    /\ ZeroExit
    /\ child.stderr = LineTokens \o << "\n" >> \o LineCost
    /\ \E i \in 1..Len(log) : log[i].msg = "Metric: " /\ log[i].arg = LineTokens
    /\ \E i \in 1..Len(log) : log[i].msg = "Metric: " /\ log[i].arg = LineCost
    /\ outcome.metrics = PyNone
    /\ outcome.success

\* C5: main ends the process with exit code 1 whenever run_copilot_agent raised (AgentError
\* or anything else) and with exit code 0 when the agent run succeeded.
C5_ExitCodeReflectsOutcome ==
    pc = "exited"
        => /\ outcome.kind = "raise" => exit_code = 1
           /\ (outcome.kind = "return" /\ outcome.success) => exit_code = 0

C5_Witness ==
    /\ pc = "exited"
    /\ outcome.kind = "raise"
    /\ outcome.exc = "AgentError"
    /\ NonZeroExit
    /\ exit_code = 1
    /\ termination = "sys.exit"

SoundContext(r) == r.git # "git_not_found" /\ r.schema \in { "valid", "no_pattern" }

\* C6: with a working version-control context and a readable schema document, the
\* configuration is loaded once: every get_config call after the first returns the
\* instance the first one returned and does not run Config.load again.
C6_LoadedOnceThenCached ==
    \A i \in 2..Len(resolutions) :
        (\A j \in 1..i : SoundContext(resolutions[j]))
            => /\ ~resolutions[i].loaded
               /\ resolutions[i].result.kind = "return"
               /\ resolutions[i].result = resolutions[1].result

\* C7: with the schema document missing or malformed, get_config fails with
\* ConfigurationError and leaves the singleton unset.
C7_MissingSchemaRaisesConfigurationError ==
    \A i \in 1..Len(resolutions) :
        (resolutions[i].git # "git_not_found"
         /\ resolutions[i].schema \in { "missing", "malformed" })
            => /\ resolutions[i].result.kind = "raise"
               /\ resolutions[i].result.exc = "ConfigurationError"
               /\ ~resolutions[i].cached

\* C8: _get_git_root returns a path for every outcome of the git invocation: success,
\* non-zero exit, and git being absent.
C8_GitRootAlwaysReturnsPath ==
    \A i \in 1..Len(resolutions) :
        resolutions[i].loaded
            => /\ resolutions[i].root.kind = "return"
               /\ resolutions[i].root.value.type = "Path"

\* C9: one run of main looks the executable up at most once and calls subprocess.run at
\* most once; the child is running exactly while main waits for it, and once
\* run_copilot_agent has an outcome (timeout and failures included) nothing is spawned again.
C9_AtMostOneChildNoRetry ==
    /\ which_calls <= 1
    /\ run_calls <= 1
    /\ (child.state = "running") <=> (pc = "wait")
    /\ child.state # "none" => run_calls = 1
    /\ Finished => (outcome.kind # "none" \/ termination = "traceback")

C9_Witness ==
    /\ pc = "exited"
    /\ child.state = "killed"
    /\ run_calls = 1
    /\ which_calls = 1

\* C10: after a timeout main logs the warning, reaches "Script completed" and ends with
\* exit code 0; exit code 1 is reached only through a raised exception, never through a
\* returned success flag False.
C10_TimeoutExitsZero ==
    /\ (pc = "exited" /\ child.state = "killed")
           => /\ exit_code = 0
              /\ termination = "normal"
              /\ HasLog("WARNING", "Copilot CLI execution completed with warnings")
              /\ log[Len(log)] = Log("INFO", "=== Script completed ===", << >>)
    /\ (pc = "exited" /\ exit_code = 1)
           => (outcome.kind = "raise" \/ termination = "traceback")

C10_Witness ==
    /\ pc = "exited"
    /\ child.state = "killed"
    /\ outcome = Return(PyNone, FALSE)
    /\ exit_code = 0
    /\ HasLog("WARNING", "Copilot CLI execution completed with warnings")

====
